---- MODULE Spec2Model ----
(***************************************************************************)
(* Model of the discovery-and-persistence core of the real-estate scraper: *)
(*   - URL canonicalization (utils/canonical.py, PropertyScraper)          *)
(*   - the pagination walk PropertyScraper.url_discovery_routine           *)
(*   - the listings upsert of SupabaseWriter / load_to_postgres.upsert_df  *)
(*   - detail extraction: _parse_listing and detail_extraction_stage       *)
(*   - the fetchers _fetch_with_requests and _fetch_with_playwright        *)
(*   - start-up, run directories and load_urls_for of main()               *)
(*   - upsert_listings_batched and SupabaseClient._request                 *)
(*                                                                         *)
(* A URL is a sequence of tokens.  A token is either one of the delimiter  *)
(* characters  :  /  ?  #  ;  or a word, i.e. a non-empty run of           *)
(* characters of urllib's scheme_chars that starts with a letter.          *)
(***************************************************************************)
EXTENDS Integers, Sequences, FiniteSets, TLC

\* ------------------------------------------------------------------ bounds
MaxTail == 3
NumPages == 2
MaxAnchors == 2
MaxPagesCfg == 2
MaxListingsCfg == 2
MaxRuns == 2
MaxBatchSize == 2
MaxRetries == 2
MaxAdds == 2

\* URLs handed to one detail extraction stage
MaxStageUrls == 3

\* portals of portals.json
NumPortals == 2

\* largest cfg.max_retries of a portal
MaxCfgRetries == 6

\* total of the Retry mounted on the requests session
RetryTotal == 5

\* the attempts of _fetch_with_playwright: while attempts < 3
PwMaxAttempts == 3

\* ticks of the clock in one second, and the last tick at which a run starts
TicksPerSecond == 2

MaxTick == 3

\* URLs a run writes to its ledger
MaxLedgerLines == 1

\* rows and batch_size given to upsert_listings_batched
MaxRows == 4

MaxChunkSize == 3

\* largest max_retries given to SupabaseClient._request
MaxHttpRetries == 3

\* earlier run directories that hold a ledger of the portal
NumPrevRuns == 2

\* ------------------------------------------------------------ URL strings
Words == {"http", "HTTP", "host", "HOST", "a", "b", "list", "page"}

Lower(t) == CASE t = "HTTP" -> "http" [] t = "HOST" -> "host" [] OTHER -> t

LowerSeq(s) == [i \in 1..Len(s) |-> Lower(s[i])]

\* str.find(c, start): least 1-based index >= from holding c, 0 when absent
Find(s, c, from) ==
  IF \E i \in from..Len(s) : s[i] = c
  THEN CHOOSE i \in from..Len(s) : s[i] = c /\ \A j \in from..(i - 1) : s[j] # c
  ELSE 0

\* str.rfind(c): greatest index holding c, 0 when absent
RFind(s, c) ==
  IF \E i \in 1..Len(s) : s[i] = c
  THEN CHOOSE i \in 1..Len(s) : s[i] = c /\ \A j \in (i + 1)..Len(s) : s[j] # c
  ELSE 0

\* str.rstrip("/"): drops every trailing slash
RECURSIVE RStripSlash(_)
RStripSlash(s) ==
  IF Len(s) > 0 /\ s[Len(s)] = "/" THEN RStripSlash(SubSeq(s, 1, Len(s) - 1)) ELSE s

\* urllib.parse.uses_params, restricted to the schemes the words can spell
uses_params == {<< >>, <<"http">>}

\* least element of a non-empty set of indices
MinIndex(hits) == CHOOSE i \in hits : \A j \in hits : i <= j

\* url[start:delim] and url[delim:] of _splitnetloc
NetlocAt(url, delim) ==
  [netloc |-> SubSeq(url, 3, delim - 1), rest |-> SubSeq(url, delim, Len(url))]

\* delim of _splitnetloc: the first of "/?#" at or after index 2, else len(url)
NetlocDelim(url, hits) == IF hits = {} THEN Len(url) + 1 ELSE MinIndex(hits)

\* urllib.parse._splitnetloc(url, 2): [netloc, rest]
SplitNetloc(url) ==
  NetlocAt(url, NetlocDelim(url, {i \in 3..Len(url) : url[i] \in {"/", "?", "#"}}))

\* urlsplit, the scheme: i = url.find(":"); every character before it is a
\* scheme character: scheme, url = url[:i].lower(), url[i+1:]
SplitScheme(url, i) ==
  IF i > 1 /\ \A k \in 1..(i - 1) : url[k] \in Words
  THEN [scheme |-> LowerSeq(SubSeq(url, 1, i - 1)), rest |-> SubSeq(url, i + 1, Len(url))]
  ELSE [scheme |-> << >>, rest |-> url]

\* urlsplit, the netloc: if url[:2] == "//": netloc, url = _splitnetloc(url, 2)
SplitNet(url) ==
  IF Len(url) >= 2 /\ url[1] = "/" /\ url[2] = "/"
  THEN SplitNetloc(url)
  ELSE [netloc |-> << >>, rest |-> url]

\* urlsplit, the fragment: if "#" in url: url, fragment = url.split("#", 1)
SplitFragment(url, f) ==
  IF f > 0
  THEN [rest |-> SubSeq(url, 1, f - 1), fragment |-> SubSeq(url, f + 1, Len(url))]
  ELSE [rest |-> url, fragment |-> << >>]

\* urlsplit, the query: if "?" in url: url, query = url.split("?", 1)
SplitQuery(url, q) ==
  IF q > 0
  THEN [rest |-> SubSeq(url, 1, q - 1), query |-> SubSeq(url, q + 1, Len(url))]
  ELSE [rest |-> url, query |-> << >>]

\* SplitResult(scheme, netloc, url, query, fragment)
SplitResult(scheme, netloc, fragment, qr) ==
  [scheme |-> scheme, netloc |-> netloc, path |-> qr.rest,
   query |-> qr.query, fragment |-> fragment]

urlsplit_query(scheme, netloc, fr) ==
  SplitResult(scheme, netloc, fr.fragment, SplitQuery(fr.rest, Find(fr.rest, "?", 1)))

urlsplit_fragment(scheme, nl) ==
  urlsplit_query(scheme, nl.netloc, SplitFragment(nl.rest, Find(nl.rest, "#", 1)))

urlsplit_netloc(sc) == urlsplit_fragment(sc.scheme, SplitNet(sc.rest))

\* urllib.parse.urlsplit: [scheme, netloc, path, query, fragment]
urlsplit(url) == urlsplit_netloc(SplitScheme(url, Find(url, ":", 1)))

\* _splitparams, the split at index i (0: no ";" found)
SplitParamsAt(url, i) ==
  IF i = 0 THEN [path |-> url, params |-> << >>]
  ELSE [path |-> SubSeq(url, 1, i - 1), params |-> SubSeq(url, i + 1, Len(url))]

\* _splitparams, the index of the first ";" of the last path segment
ParamsIndex(url, r) == IF r > 0 THEN Find(url, ";", r) ELSE Find(url, ";", 1)

\* urllib.parse._splitparams: [path, params]
SplitParams(url) == SplitParamsAt(url, ParamsIndex(url, RFind(url, "/")))

\* ParseResult(scheme, netloc, url, params, query, fragment)
ParseResult(s, sp) ==
  [scheme |-> s.scheme, netloc |-> s.netloc, path |-> sp.path,
   params |-> sp.params, query |-> s.query, fragment |-> s.fragment]

\* urlparse on a split result: if scheme in uses_params and ";" in url:
\* url, params = _splitparams(url)
urlparse_params(s) ==
  ParseResult(s, IF s.scheme \in uses_params /\ Find(s.path, ";", 1) > 0
                 THEN SplitParams(s.path)
                 ELSE [path |-> s.path, params |-> << >>])

\* urllib.parse.urlparse: [scheme, netloc, path, params, query, fragment]
urlparse(url) == urlparse_params(urlsplit(url))

\* the netloc component as canonicalize reads it (pu.netloc: case preserved)
CanonNetloc(pu) == pu.netloc

\* what canonicalize strips from the right of the formatted string
CanonStrip(s) == RStripSlash(s)

\* f"{pu.scheme}://{pu.netloc}{pu.path}".rstrip("/")
CanonFormat(pu) ==
  CanonStrip(pu.scheme \o <<":", "/", "/">> \o CanonNetloc(pu) \o pu.path)

\* utils.canonical.canonicalize and PropertyScraper._canonicalize_url:
\*   pu = urlparse(url); return f"{pu.scheme}://{pu.netloc}{pu.path}".rstrip("/")
canonicalize(url) == CanonFormat(urlparse(url))

\* urllib.parse.urlunparse for a URL with a netloc
urlunparse(pu) ==
  pu.scheme \o <<":", "/", "/">> \o pu.netloc
    \o (IF pu.path # << >> /\ pu.path[1] # "/" THEN <<"/">> ELSE << >>) \o pu.path
    \o (IF pu.params # << >> THEN <<";">> \o pu.params ELSE << >>)
    \o (IF pu.query # << >> THEN <<"?">> \o pu.query ELSE << >>)
    \o (IF pu.fragment # << >> THEN <<"#">> \o pu.fragment ELSE << >>)

\* urljoin on the parsed base and url: a url of another scheme is returned
\* as it is; a url with its own netloc is put together again from its parts
urljoin_parsed(url, pb, pu) ==
  CASE pu.scheme # pb.scheme -> url
    [] pu.scheme = pb.scheme /\ pu.netloc # << >> -> urlunparse(pu)

\* urllib.parse.urljoin(base, url) on the arguments the walk passes it: an
\* absent base, an empty url, or a url that carries its own netloc.  (A
\* relative reference matches no arm: the pages of this model link absolutely.)
urljoin(base, url) ==
  CASE base = << >> -> url
    [] base # << >> /\ url = << >> -> base
    [] base # << >> /\ url # << >> -> urljoin_parsed(url, urlparse(base), urlparse(url))

\* ---------------------------------------------------------------- variables
VARIABLES
  \* canonicalization harness: one input URL, its canonical form, the
  \* canonical form of that, and one cosmetic variant of the input
  cpc, cu, c1, c2, vkind, vu, vc,
  \* the site: page number -> [anchors, next]; a page number stands for the
  \* absolute URL of that result page, 0 for None
  site,
  \* ScrapingConfig fields read by the walk, and the MAX_LISTINGS environment cap
  cfg, env_max_listings,
  \* locals of url_discovery_routine
  dpc, all_urls, pages, current, seen_local, found_this_page, anchor_i, soup,
  \* the file staged/<portal>_urls.jsonl (its url fields, in file order)
  ledger,
  \* observation: number of the run, pages whose fetch was attempted (in
  \* order), whether a fetch failed, why the walk stopped, ledger records
  \* written by this run, fetch attempts made when the URL cap was hit
  \* (-1: not hit), the returned list, the ledger left by the first run
  run, fetched, fetch_failed, stop_reason, written, cap_hit_at, returned, ledger_run1,
  \* SupabaseWriter: its settings and buffers, the two tables of the store,
  \* how the last call ended ("ok", "raised"), and the number of records added
  batch_size, retries, buffer, buffer_meta, listings, listing_daily, wstatus, adds,
  \* observation of the writer: the last method called ("add", "flush",
  \* "close") and the number of attempts of that call that raised
  wop, wfailed,
  \* observation: the rows carried by the listings upserts of the last call
  \* (0: the call issued none)
  wrows,
  \* normalisation harness: one scraped record and the listings row made of it
  npc, nrec, nrow,
  \* detail extraction of one URL: the listing page served for it, the dict
  \* _parse_listing returned, the records written to <portal>_listings.jsonl
  \* and the reasons appended to fails
  xpc, xpage, listing, staged, xfails,
  \* detail_extraction_stage over a list of URLs: what each URL does when it is
  \* fetched and parsed, the loop index, ok, fails, the URLs written to
  \* <portal>_listings.jsonl, and the trace of fetches, writes and failures
  spc, surls, si, sok, sfails, sstaged, strace,
  \* a run of main(): the portals of portals.json, the SCRAPING_MODE
  \* environment value, the portal being discovered, the page fetches issued
  \* so far and the exception that ended the run
  bpc, bconfigs, benv_mode, bi, bfetches, berror,
  \* _fetch_with_requests of one URL: cfg.max_retries, the retries the session
  \* has made, the transient responses it met, and what the call returned
  rq_pc, rq_max_retries, rq_retries, rq_responses, rq_result,
  \* _fetch_with_playwright of one URL: attempts, ctx and page of the current
  \* attempt, the contexts and pages open in the browser, how the finished
  \* attempts ended, and what the call returned
  pw_pc, pw_attempts, pw_ctx, pw_page, pw_open, pw_errs, pw_result,
  \* two runs of the scraper: the second of the clock at which each was
  \* constructed, the portal each discovers, and the ledger files on disk
  rd_pc, rd_start, rd_portal, rd_files,
  \* upsert_listings_batched: rows, batch_size, the batches handed to
  \* client.upsert_rows (in order), sent, and how the call ended
  ck_pc, ck_rows, ck_size, ck_batches, ck_sent,
  \* SupabaseClient._request: max_retries, attempt, what each attempt met, and
  \* how the call ended
  h_pc, h_max_retries, h_attempt, h_responses, h_result,
  \* load_urls_for: the phase of main(), the ledgers of this portal in the
  \* earlier run directories, the ledger in the current run directory (None:
  \* no such file), and the list of URLs yielded
  l_pc, l_phase, l_prev, l_curr, l_urls

canonVars == <<cpc, cu, c1, c2, vkind, vu, vc>>

discVars == <<site, cfg, env_max_listings, dpc, all_urls, pages, current, seen_local,
              found_this_page, anchor_i, soup, ledger, run, fetched, fetch_failed,
              stop_reason, written, cap_hit_at, returned, ledger_run1>>

writerVars == <<batch_size, retries, buffer, buffer_meta, listings, listing_daily,
                wstatus, adds, wop, wfailed, wrows>>

normVars == <<npc, nrec, nrow>>

detailVars == <<xpc, xpage, listing, staged, xfails>>

stageVars == <<spc, surls, si, sok, sfails, sstaged, strace>>

bootVars == <<bpc, bconfigs, benv_mode, bi, bfetches, berror>>

reqVars == <<rq_pc, rq_max_retries, rq_retries, rq_responses, rq_result>>

pwVars == <<pw_pc, pw_attempts, pw_ctx, pw_page, pw_open, pw_errs, pw_result>>

runVars == <<rd_pc, rd_start, rd_portal, rd_files>>

chunkVars == <<ck_pc, ck_rows, ck_size, ck_batches, ck_sent>>

httpVars == <<h_pc, h_max_retries, h_attempt, h_responses, h_result>>

loadVars == <<l_pc, l_phase, l_prev, l_curr, l_urls>>

coreVars == <<canonVars, discVars, writerVars, normVars, detailVars>>

lateVars == <<stageVars, bootVars, reqVars, pwVars, runVars, chunkVars, httpVars, loadVars>>

vars == <<coreVars, lateVars>>

\* what an action of one component leaves alone
discOther == <<canonVars, writerVars, normVars, detailVars, lateVars>>

canonOther == <<discVars, writerVars, normVars, detailVars, lateVars>>

writerOther == <<discVars, canonVars, normVars, detailVars, lateVars>>

normOther == <<discVars, canonVars, writerVars, detailVars, lateVars>>

detailOther == <<discVars, canonVars, writerVars, normVars, lateVars>>

stageOther == <<coreVars, bootVars, reqVars, pwVars, runVars, chunkVars, httpVars, loadVars>>

bootOther == <<coreVars, stageVars, reqVars, pwVars, runVars, chunkVars, httpVars, loadVars>>

reqOther == <<coreVars, stageVars, bootVars, pwVars, runVars, chunkVars, httpVars, loadVars>>

pwOther == <<coreVars, stageVars, bootVars, reqVars, runVars, chunkVars, httpVars, loadVars>>

runOther == <<coreVars, stageVars, bootVars, reqVars, pwVars, chunkVars, httpVars, loadVars>>

chunkOther == <<coreVars, stageVars, bootVars, reqVars, pwVars, runVars, httpVars, loadVars>>

httpOther == <<coreVars, stageVars, bootVars, reqVars, pwVars, runVars, chunkVars, loadVars>>

loadOther == <<coreVars, stageVars, bootVars, reqVars, pwVars, runVars, chunkVars, httpVars>>

\* every sequence over S of length at most n
RECURSIVE SeqsUpTo(_, _)
SeqsUpTo(S, n) ==
  IF n = 0 THEN {<< >>}
  ELSE LET shorter == SeqsUpTo(S, n - 1)
       IN  shorter \cup {Append(s, x) : s \in {t \in shorter : Len(t) = n - 1}, x \in S}

\* ------------------------------------------------- canonicalization harness
TailAlphabet == {"a", "/", "?", "#", ";", ":"}

\* absolute URLs  <scheme>://<host><tail>
AbsoluteUrls ==
  {<<s, ":", "/", "/", h>> \o t :
      s \in {"http", "HTTP"}, h \in {"host", "HOST"}, t \in SeqsUpTo(TailAlphabet, MaxTail)}

SwapCase(t) ==
  CASE t = "http" -> "HTTP" [] t = "HTTP" -> "http"
    [] t = "host" -> "HOST" [] t = "HOST" -> "host" [] OTHER -> t

\* the part of a URL string before its fragment delimiter
BeforeFragment(u) == IF Find(u, "#", 1) > 0 THEN SubSeq(u, 1, Find(u, "#", 1) - 1) ELSE u

VariantKinds == {"slash", "fragment", "nofragment", "scheme", "host"}

\* a URL that differs from u only in the named cosmetic aspect
Variant(kind, u) ==
  CASE kind = "slash" -> u \o <<"/">>
    [] kind = "fragment" -> BeforeFragment(u) \o <<"#", "b">>
    [] kind = "nofragment" -> BeforeFragment(u)
    [] kind = "scheme" -> [u EXCEPT ![1] = SwapCase(u[1])]
    [] kind = "host" -> [u EXCEPT ![5] = SwapCase(u[5])]

\* the canonicalization harness at rest
CanonOff ==
  /\ cpc = "off"
  /\ cu = << >>
  /\ c1 = << >>
  /\ c2 = << >>
  /\ vkind = "none"
  /\ vu = << >>
  /\ vc = << >>

CanonInit ==
  /\ cpc = "input"
  /\ cu \in AbsoluteUrls
  /\ c1 = << >>
  /\ c2 = << >>
  /\ vkind = "none"
  /\ vu = << >>
  /\ vc = << >>

\* full = canonicalize(u)
CanonOnce ==
  /\ cpc = "input"
  /\ c1' = canonicalize(cu)
  /\ cpc' = "once"
  /\ UNCHANGED <<cu, c2, vkind, vu, vc>>
  /\ UNCHANGED canonOther

\* canonicalize(canonicalize(u))
CanonTwice ==
  /\ cpc = "once"
  /\ c2' = canonicalize(c1)
  /\ cpc' = "twice"
  /\ UNCHANGED <<cu, c1, vkind, vu, vc>>
  /\ UNCHANGED canonOther

\* canonicalize applied to a cosmetic variant of the same URL
CanonVariant ==
  /\ cpc = "twice"
  /\ \E k \in VariantKinds :
       /\ vkind' = k
       /\ vu' = Variant(k, cu)
       /\ vc' = canonicalize(Variant(k, cu))
  /\ cpc' = "variant"
  /\ UNCHANGED <<cu, c1, c2>>
  /\ UNCHANGED canonOther

CanonNext == CanonOnce \/ CanonTwice \/ CanonVariant

\* ------------------------------------------------------------ discovery
\* hrefs of listing anchors: a missing href, a listing, the same listing
\* with a trailing slash, another listing
NoHref == << >>

HrefA == <<"http", ":", "/", "/", "host", "/", "a">>

HrefASlash == <<"http", ":", "/", "/", "host", "/", "a", "/">>

HrefB == <<"http", ":", "/", "/", "host", "/", "b">>

Hrefs == {NoHref, HrefA, HrefASlash, HrefB}

PageNos == 1..NumPages

\* the absolute URL of result page p
PageUrl(p) == <<"http", ":", "/", "/", "host", "/", "list", "?", "page">> \o [i \in 1..p |-> "a"]

\* full = self._canonicalize_url(urljoin(current, href)), tabulated for the
\* result pages and hrefs of the model
Full == [p \in PageNos |-> [h \in Hrefs |-> canonicalize(urljoin(PageUrl(p), h))]]

Sites == [PageNos -> [anchors : SeqsUpTo(Hrefs, MaxAnchors), next : 0..NumPages]]

\* cfg.max_pages as loaded: None, a bool, or a number
MaxPagesValues ==
  {[kind |-> "none", val |-> 0], [kind |-> "bool", val |-> 1]}
    \cup {[kind |-> "int", val |-> n] : n \in 0..MaxPagesCfg}

Configs == [max_pages : MaxPagesValues, pagination_selector : BOOLEAN]

Max(a, b) == IF a >= b THEN a ELSE b

Min(a, b) == IF a <= b THEN a ELSE b

\* the page counter is kept exactly up to the first value no configured
\* cap can exceed; the fetch log is kept up to FetchLogLen entries
PagesCeil == MaxPagesCfg + 1

FetchLogLen == Max(NumPages, MaxPagesCfg) + 2

LogFetch(log, p) == IF Len(log) < FetchLogLen THEN Append(log, p) ELSE log

\* max_pages = cfg.max_pages if cfg.max_pages is not None else 0;
\* if isinstance(max_pages, bool): max_pages = 0
EffMaxPages(raw) ==
  IF raw.kind = "none" THEN 0 ELSE IF raw.kind = "bool" THEN 0 ELSE raw.val

LoopCondOffByOne(cur, mp, pg) == cur # 0 /\ (mp = 0 \/ pg <= mp)

\* while current and (max_pages == 0 or pages < max_pages)
LoopCond(cur, mp, pg) == cur # 0 /\ (mp = 0 \/ pg < mp)

SeenBeforeNever(full, seen) == FALSE

\* if full in seen_local: continue
SeenBefore(full, seen) == full \in seen

LedgerWriteDeferred(file, full) == file

\* w.write({"url": full, ...}) inside the anchor loop
LedgerWrite(file, full) == Append(file, full)

\* if MAX_LISTINGS and len(all_urls) >= MAX_LISTINGS
HitMaxListings(m, n) == m # 0 /\ n >= m

NextUrlWithoutSelector(c, page) == page.next

\* nxt = soup.select_one(cfg.pagination_selector); urljoin(current, nxt["href"])
NextUrl(c, page) == IF c.pagination_selector THEN page.next ELSE 0

DiscOff ==
  /\ site = << >>
  /\ cfg = << >>
  /\ env_max_listings = 0
  /\ dpc = "off"
  /\ all_urls = << >>
  /\ pages = 0
  /\ current = 0
  /\ seen_local = {}
  /\ found_this_page = 0
  /\ anchor_i = 0
  /\ soup = 0
  /\ ledger = << >>
  /\ run = 0
  /\ fetched = << >>
  /\ fetch_failed = FALSE
  /\ stop_reason = "none"
  /\ written = 0
  /\ cap_hit_at = -1
  /\ returned = << >>
  /\ ledger_run1 = << >>

DiscInit ==
  /\ site \in Sites
  /\ cfg \in Configs
  /\ env_max_listings \in 0..MaxListingsCfg
  /\ dpc = "idle"
  /\ all_urls = << >>
  /\ pages = 0
  /\ current = 0
  /\ seen_local = {}
  /\ found_this_page = 0
  /\ anchor_i = 0
  /\ soup = 0
  /\ ledger = << >>
  /\ run = 0
  /\ fetched = << >>
  /\ fetch_failed = FALSE
  /\ stop_reason = "none"
  /\ written = 0
  /\ cap_hit_at = -1
  /\ returned = << >>
  /\ ledger_run1 = << >>

\* entry of url_discovery_routine up to the while loop: the ledger file is
\* unlinked and reopened for writing, the locals are initialised
StartRun ==
  /\ dpc = "idle"
  /\ run < MaxRuns
  /\ run' = run + 1
  /\ ledger' = << >>
  /\ all_urls' = << >>
  /\ pages' = 0
  /\ current' = 1
  /\ seen_local' = {}
  /\ found_this_page' = 0
  /\ anchor_i' = 0
  /\ soup' = 0
  /\ fetched' = << >>
  /\ stop_reason' = "none"
  /\ written' = 0
  /\ cap_hit_at' = -1
  /\ returned' = << >>
  /\ dpc' = "loop"
  /\ UNCHANGED <<site, cfg, env_max_listings, fetch_failed, ledger_run1>>
  /\ UNCHANGED discOther

\* the loop condition holds and _get_page_content returns HTML
FetchPageOk ==
  /\ dpc = "loop"
  /\ LoopCond(current, EffMaxPages(cfg.max_pages), pages)
  /\ fetched' = LogFetch(fetched, current)
  /\ soup' = current
  /\ found_this_page' = 0
  /\ anchor_i' = 1
  /\ dpc' = "anchors"
  /\ UNCHANGED <<site, cfg, env_max_listings, all_urls, pages, current, seen_local,
                 ledger, run, fetch_failed, stop_reason, written, cap_hit_at,
                 returned, ledger_run1>>
  /\ UNCHANGED discOther

\* the loop condition holds and _get_page_content returns nothing: break
FetchPageNoHtml ==
  /\ dpc = "loop"
  /\ LoopCond(current, EffMaxPages(cfg.max_pages), pages)
  /\ fetched' = LogFetch(fetched, current)
  /\ fetch_failed' = TRUE
  /\ stop_reason' = "no_html"
  /\ dpc' = "done"
  /\ UNCHANGED <<site, cfg, env_max_listings, all_urls, pages, current, seen_local,
                 found_this_page, anchor_i, soup, ledger, run, written, cap_hit_at,
                 returned, ledger_run1>>
  /\ UNCHANGED discOther

\* the loop condition fails
LoopExit ==
  /\ dpc = "loop"
  /\ ~LoopCond(current, EffMaxPages(cfg.max_pages), pages)
  /\ stop_reason' = IF current = 0 THEN "url_cap" ELSE "page_cap"
  /\ dpc' = "done"
  /\ UNCHANGED <<site, cfg, env_max_listings, all_urls, pages, current, seen_local,
                 found_this_page, anchor_i, soup, ledger, run, fetched, fetch_failed,
                 written, cap_hit_at, returned, ledger_run1>>
  /\ UNCHANGED discOther

\* one anchor that is skipped: no href, or its canonical URL was seen
ExtractSkip ==
  /\ dpc = "anchors"
  /\ anchor_i <= Len(site[soup].anchors)
  /\ LET href == site[soup].anchors[anchor_i]
     IN  \/ href = NoHref
         \/ /\ href # NoHref
            /\ SeenBefore(Full[current][href], seen_local)
  /\ anchor_i' = anchor_i + 1
  /\ UNCHANGED <<site, cfg, env_max_listings, dpc, all_urls, pages, current, seen_local,
                 found_this_page, soup, ledger, run, fetched, fetch_failed,
                 stop_reason, written, cap_hit_at, returned, ledger_run1>>
  /\ UNCHANGED discOther

\* one anchor whose canonical URL is new: it is marked seen, appended to the
\* list and written to the ledger; reaching MAX_LISTINGS sets current to
\* None and leaves the anchor loop
ExtractCollect ==
  /\ dpc = "anchors"
  /\ anchor_i <= Len(site[soup].anchors)
  /\ site[soup].anchors[anchor_i] # NoHref
  /\ LET full == Full[current][site[soup].anchors[anchor_i]]
     IN  /\ ~SeenBefore(full, seen_local)
         /\ seen_local' = seen_local \cup {full}
         /\ all_urls' = Append(all_urls, full)
         /\ ledger' = LedgerWrite(ledger, full)
         /\ written' = written + (Len(LedgerWrite(ledger, full)) - Len(ledger))
  /\ found_this_page' = found_this_page + 1
  /\ IF HitMaxListings(env_max_listings, Len(all_urls) + 1)
     THEN /\ current' = 0
          /\ dpc' = "next"
          /\ cap_hit_at' = IF cap_hit_at = -1 THEN Len(fetched) ELSE cap_hit_at
          /\ UNCHANGED anchor_i
     ELSE /\ anchor_i' = anchor_i + 1
          /\ UNCHANGED <<current, dpc, cap_hit_at>>
  /\ UNCHANGED <<site, cfg, env_max_listings, pages, soup, run, fetched, fetch_failed,
                 stop_reason, returned, ledger_run1>>
  /\ UNCHANGED discOther

\* the anchor loop is exhausted
EndAnchors ==
  /\ dpc = "anchors"
  /\ anchor_i > Len(site[soup].anchors)
  /\ dpc' = "next"
  /\ UNCHANGED <<site, cfg, env_max_listings, all_urls, pages, current, seen_local,
                 found_this_page, anchor_i, soup, ledger, run, fetched, fetch_failed,
                 stop_reason, written, cap_hit_at, returned, ledger_run1>>
  /\ UNCHANGED discOther

\* pages += 1; no next link: break
FindNextNone ==
  /\ dpc = "next"
  /\ NextUrl(cfg, site[soup]) = 0
  /\ pages' = Min(pages + 1, PagesCeil)
  /\ stop_reason' = "no_next"
  /\ dpc' = "done"
  /\ UNCHANGED <<site, cfg, env_max_listings, all_urls, current, seen_local,
                 found_this_page, anchor_i, soup, ledger, run, fetched, fetch_failed,
                 written, cap_hit_at, returned, ledger_run1>>
  /\ UNCHANGED discOther

\* pages += 1; a next link: sleep, current = next_url
FindNextFollow ==
  /\ dpc = "next"
  /\ NextUrl(cfg, site[soup]) # 0
  /\ pages' = Min(pages + 1, PagesCeil)
  /\ current' = NextUrl(cfg, site[soup])
  /\ dpc' = "loop"
  /\ UNCHANGED <<site, cfg, env_max_listings, all_urls, seen_local,
                 found_this_page, anchor_i, soup, ledger, run, fetched, fetch_failed,
                 stop_reason, written, cap_hit_at, returned, ledger_run1>>
  /\ UNCHANGED discOther

\* the ledger file is closed and all_urls returned
Return ==
  /\ dpc = "done"
  /\ returned' = all_urls
  /\ ledger_run1' = IF run = 1 THEN ledger ELSE ledger_run1
  /\ dpc' = "idle"
  /\ UNCHANGED <<site, cfg, env_max_listings, all_urls, pages, current, seen_local,
                 found_this_page, anchor_i, soup, ledger, run, fetched, fetch_failed,
                 stop_reason, written, cap_hit_at>>
  /\ UNCHANGED discOther

DiscNext ==
  \/ StartRun
  \/ FetchPageOk
  \/ FetchPageNoHtml
  \/ LoopExit
  \/ ExtractSkip
  \/ ExtractCollect
  \/ EndAnchors
  \/ FindNextNone
  \/ FindNextFollow
  \/ Return

\* -------------------------------------------------------------- the writer
\* Python's None, and a present value
None == << >>

Some(x) == <<x>>

ListingUrls == {"u1", "u2"}

\* rec["price"]: absent, or a dict {currency, period, value}
PriceDicts ==
  {None} \cup {Some([currency |-> c, period |-> None, value |-> Some(100)]) : c \in {"PHP", "USD"}}

\* rec["area"]: absent, or a dict {sqm}
AreaDicts == {None, Some([sqm |-> Some(50)])}

\* scraped records as the staged JSONL holds them (scraped_at is a day number)
ScrapeRecords ==
  [url : ListingUrls, title : {Some("t")}, price : PriceDicts, area : AreaDicts,
   scraped_at : {1, 2}]

\* price = rec.get("price") or {}; price.get(k)
PriceGet(rec, k) ==
  IF rec.price = None THEN None
  ELSE CASE k = "currency" -> Some(rec.price[1].currency)
         [] k = "period" -> rec.price[1].period
         [] k = "value" -> rec.price[1].value

\* area = rec.get("area") or {}; _coerce_num(area.get("sqm"))
AreaSqm(rec) == IF rec.area = None THEN None ELSE rec.area[1].sqm

\* price_php: the value, for a PHP price per month or without period
PricePhp(rec) ==
  IF PriceGet(rec, "currency") = Some("PHP")
       /\ PriceGet(rec, "period") \in {None, Some("month")}
  THEN PriceGet(rec, "value")
  ELSE None

\* greatest common divisor of a >= 0 and b >= 0
RECURSIVE GCD(_, _)
GCD(a, b) == IF b = 0 THEN a ELSE GCD(b, a % b)

\* a / b for a >= 0 and b > 0, as <<numerator, denominator>> in lowest terms
Quotient(a, b) == <<a \div GCD(a, b), b \div GCD(a, b)>>

\* ppsqm = (price_php / area_sqm) if (price_php and area_sqm and area_sqm > 0) else None
\* (the quotient is kept as a fraction in lowest terms)
PricePerSqm(price_php, area_sqm) ==
  IF price_php # None /\ price_php[1] # 0 /\ area_sqm # None /\ area_sqm[1] # 0
       /\ area_sqm[1] > 0
  THEN Some(Quotient(price_php[1], area_sqm[1]))
  ELSE None

\* _normalize_scrape_record: the listings row (property_type and address are
\* copied from the record exactly as listing_title is)
NormalizeScrapeRecord(rec, source) ==
  [url |-> rec.url,
   listing_title |-> rec.title,
   price_php |-> PricePhp(rec),
   area_sqm |-> AreaSqm(rec),
   price_per_sqm |-> PricePerSqm(PricePhp(rec), AreaSqm(rec)),
   scraped_at |-> rec.scraped_at,
   source |-> source]

\* the value a column takes when a row with the same url is already stored:
\* ON CONFLICT (url) DO UPDATE SET c = EXCLUDED.c
MergeColumn(old, new) == new

\* one row upserted into the listings table, conflict target url
UpsertRow(table, row) ==
  IF table[row.url] = None THEN [table EXCEPT ![row.url] = Some(row)]
  ELSE [table EXCEPT ![row.url] =
          Some([c \in DOMAIN row |-> MergeColumn(table[row.url][1][c], row[c])])]

\* a batch upserted row by row, in order
RECURSIVE UpsertRows(_, _)
UpsertRows(table, rows) ==
  IF rows = << >> THEN table
  ELSE UpsertRows(UpsertRow(table, Head(rows)), Tail(rows))

\* snapshot_payload of flush: one snapshot per buffered row (every row's url
\* comes back with an id; scraped_dt is always set)
SnapshotPayload(rows, metas) ==
  [i \in 1..Len(rows) |->
     [listing_id |-> rows[i].url,
      scraped_date |-> metas[i].scraped_dt,
      price_php |-> rows[i].price_php,
      area_sqm |-> rows[i].area_sqm,
      price_per_sqm |-> rows[i].price_per_sqm,
      source |-> rows[i].source]]

\* one snapshot upserted into listing_daily, conflict target
\* (listing_id, scraped_date)
UpsertSnapshotInsert(table, snap) == table \cup {snap}

UpsertSnapshot(table, snap) ==
  {t \in table : ~(t.listing_id = snap.listing_id /\ t.scraped_date = snap.scraped_date)}
    \cup {snap}

RECURSIVE UpsertSnapshots(_, _)
UpsertSnapshots(table, snaps) ==
  IF snaps = << >> THEN table
  ELSE UpsertSnapshots(UpsertSnapshot(table, Head(snaps)), Tail(snaps))

\* What the attempts of one flush do: each entry of fails is one attempt
\* that raised, in the listings upsert ("listings") or after it, in the
\* snapshot upsert ("daily").  The flush makes Len(fails) failing attempts
\* and, if attempts remain, a succeeding one.
FlushOutcomes(r) == SeqsUpTo({"listings", "daily"}, r)

BufferAfterFlushCleared(buf, succeeds) == << >>

\* the buffers after flush: self.buffer.clear() and self.buffer_meta.clear()
\* run only after a successful attempt; a raising attempt leaves them alone
BufferAfterFlush(buf, succeeds) == IF succeeds THEN << >> ELSE buf

\* SupabaseWriter.flush: the state after the call, for the given attempts
FlushResult(buf, meta, lst, daily, r, fails) ==
  IF buf = << >>
  THEN [buffer |-> buf, buffer_meta |-> meta, listings |-> lst, listing_daily |-> daily,
        status |-> "ok", failed |-> 0, rows |-> 0]
  ELSE LET succeeds == Len(fails) < r
           sentListings == succeeds \/ \E i \in 1..Len(fails) : fails[i] = "daily"
       IN  [buffer |-> BufferAfterFlush(buf, succeeds),
            buffer_meta |-> BufferAfterFlush(meta, succeeds),
            listings |-> IF sentListings THEN UpsertRows(lst, buf) ELSE lst,
            listing_daily |-> IF succeeds
                              THEN UpsertSnapshots(daily, SnapshotPayload(buf, meta))
                              ELSE daily,
            status |-> IF succeeds \/ r = 0 THEN "ok" ELSE "raised",
            failed |-> Len(fails),
            rows |-> IF r >= 1 THEN Len(buf) ELSE 0]

WriterOff ==
  /\ batch_size = 0
  /\ retries = 0
  /\ buffer = << >>
  /\ buffer_meta = << >>
  /\ listings = << >>
  /\ listing_daily = {}
  /\ wstatus = "off"
  /\ adds = 0
  /\ wop = "none"
  /\ wfailed = 0
  /\ wrows = 0

\* SupabaseWriter.__init__, with an empty store
WriterInit ==
  /\ batch_size \in 1..MaxBatchSize
  /\ retries \in 0..MaxRetries
  /\ buffer = << >>
  /\ buffer_meta = << >>
  /\ listings = [u \in ListingUrls |-> None]
  /\ listing_daily = {}
  /\ wstatus = "ok"
  /\ adds = 0
  /\ wop = "none"
  /\ wfailed = 0
  /\ wrows = 0

\* SupabaseWriter.add_scrape_record, the flush it triggers included
AddScrapeRecord ==
  /\ adds < MaxAdds
  /\ \E rec \in ScrapeRecords :
       LET row == NormalizeScrapeRecord(rec, "portal")
           buf == Append(buffer, row)
           meta == Append(buffer_meta, [scraped_dt |-> rec.scraped_at, source |-> "portal"])
       IN  IF Len(buf) >= batch_size
           THEN \E fails \in FlushOutcomes(retries) :
                  LET res == FlushResult(buf, meta, listings, listing_daily, retries, fails)
                  IN  /\ buffer' = res.buffer
                      /\ buffer_meta' = res.buffer_meta
                      /\ listings' = res.listings
                      /\ listing_daily' = res.listing_daily
                      /\ wstatus' = res.status
                      /\ wfailed' = res.failed
                      /\ wrows' = res.rows
           ELSE /\ buffer' = buf
                /\ buffer_meta' = meta
                /\ wstatus' = "ok"
                /\ wfailed' = 0
                /\ wrows' = 0
                /\ UNCHANGED <<listings, listing_daily>>
  /\ adds' = adds + 1
  /\ wop' = "add"
  /\ UNCHANGED <<batch_size, retries>>
  /\ UNCHANGED writerOther

\* the body of flush() for some outcome of its attempts
FlushBody ==
  /\ \E fails \in FlushOutcomes(retries) :
       LET res == FlushResult(buffer, buffer_meta, listings, listing_daily, retries, fails)
       IN  /\ buffer' = res.buffer
           /\ buffer_meta' = res.buffer_meta
           /\ listings' = res.listings
           /\ listing_daily' = res.listing_daily
           /\ wstatus' = res.status
           /\ wfailed' = res.failed
           /\ wrows' = res.rows
  /\ UNCHANGED <<batch_size, retries, adds>>
  /\ UNCHANGED writerOther

\* SupabaseWriter.flush
Flush ==
  /\ wop' = "flush"
  /\ FlushBody

\* SupabaseWriter.close: self.flush()
Close ==
  /\ wop' = "close"
  /\ FlushBody

WriterNext == AddScrapeRecord \/ Flush \/ Close

\* ---------------------------------------------------- normalisation harness
\* rec["price"] of a staged record: absent, or {currency, period, value}
NormPriceDicts ==
  {None} \cup {Some([currency |-> c, period |-> p, value |-> v]) :
                 c \in {"PHP", "USD"}, p \in {None, Some("month"), Some("year")},
                 v \in {None, Some(0), Some(45000)}}

\* rec["area"] of a staged record: absent, or {sqm}
NormAreaDicts ==
  {None} \cup {Some([sqm |-> a]) : a \in {None, Some(-30), Some(0), Some(30), Some(50)}}

NormRecords ==
  [url : {"u1"}, title : {Some("t")}, price : NormPriceDicts, area : NormAreaDicts,
   scraped_at : {1}]

NormOff ==
  /\ npc = "off"
  /\ nrec = << >>
  /\ nrow = << >>

NormInit ==
  /\ npc = "input"
  /\ nrec \in NormRecords
  /\ nrow = << >>

\* listing_row, scraped_dt = _normalize_scrape_record(rec, source)
NormalizeRecord ==
  /\ npc = "input"
  /\ nrow' = NormalizeScrapeRecord(nrec, "portal")
  /\ npc' = "done"
  /\ UNCHANGED nrec
  /\ UNCHANGED normOther

NormNext == NormalizeRecord

\* ---------------------------------------------------------- detail extraction
\* A listing page, by what the selectors and regular expressions of
\* _parse_listing find on it.  Times are hours; a date text is
\*   iso: an ISO 8601 timestamp with UTC offset (t local, off the offset),
\*   dmy: a date such as "12 Sep 2023" (no zone),
\*   rel: a phrase such as "2 days, 3 hours ago",
\*   junk: any other text.
DateText(kind, t, off, days, hours) ==
  [kind |-> kind, t |-> t, off |-> off, days |-> days, hours |-> hours]

IsoDate == DateText("iso", 500, 8, 0, 0)

DmyDate == DateText("dmy", 480, 0, 0, 0)

RelDate == DateText("rel", 0, 0, 2, 3)

JunkDate == DateText("junk", 0, 0, 0, 0)

\* the text of the price element: the first number in it, whether it
\* carries a peso sign or "php", whether it contains "month"
PriceTexts == [num : {None, Some(95200)}, php : BOOLEAN, month : BOOLEAN]

\* the first "<number> <unit>" of the page text, for the units a listing
\* page states an area in
AreaTokens == [n : {50, 1000}, unit : {"sqm", "sqft"}]

\* the first JSON-LD node of type Offer: price and priceCurrency
Offers == [price : {50000}, currency : {"PHP", "USD"}]

ListingPages ==
  [fetched : BOOLEAN,
   title : {None, Some("t")},
   price_text : {None} \cup {Some(p) : p \in PriceTexts},
   area_token : {None} \cup {Some(a) : a \in AreaTokens},
   address : {None, Some("addr")},
   description : {None, Some("desc")},
   date_attr : {None, Some(IsoDate)},
   date_text : {None, Some(DmyDate), Some(RelDate), Some(JunkDate)},
   ld_date : {None, Some(IsoDate)},
   offer : {None} \cup {Some(o) : o \in Offers},
   local_off : {0, 8},
   now : {1000}]

\* price (DOM): value = first number of the text, per = "month" if the text
\* contains it, cur = "PHP" for a peso sign or "php"
DomPrice(price_text) ==
  IF price_text = None THEN None
  ELSE Some([raw |-> "dom",
             currency |-> IF price_text[1].php THEN Some("PHP") ELSE None,
             value |-> price_text[1].num,
             period |-> IF price_text[1].month THEN Some("month") ELSE None])

\* price via JSON-LD if DOM missing:
\*   if (not price) or (price and price.get("value") is None): ...
JsonLdPrice(price, offer) ==
  IF price # None /\ price[1].value # None THEN price
  ELSE IF offer = None THEN price
  ELSE Some([raw |-> IF price # None THEN price[1].raw ELSE "ld",
             currency |-> IF price # None /\ price[1].currency # None
                          THEN price[1].currency ELSE Some(offer[1].currency),
             value |-> Some(offer[1].price),
             period |-> IF price # None THEN price[1].period ELSE None])

\* the units of re.search(r"(\d[\d,\.]*)\s*(sqm|m2|m²)", full_text)
AreaUnits == {"sqm"}

\* area = {"raw": m.group(0), "sqm": float(m.group(1))} if the pattern matches
ParseArea(area_token) ==
  IF area_token # None /\ area_token[1].unit \in AreaUnits
  THEN Some([raw |-> area_token[1], sqm |-> area_token[1].n])
  ELSE None

\* published_text: _first_attr_or_text(..., attr="datetime"), el.get(attr) or
\* el.get_text(), then _first_text
PublishedText(page) == IF page.date_attr # None THEN page.date_attr ELSE page.date_text

\* re.search(r"(\d{1,2}\s+[A-Za-z]{3,}\s+\d{4})", published_text), then
\* dtparse.parse(m.group(1), dayfirst=True).astimezone(timezone.utc): only a
\* "12 Sep 2023" text matches, and is read in the local zone
LeadingDateToken(published_text, local_off) ==
  IF published_text # None /\ published_text[1].kind = "dmy"
  THEN Some(published_text[1].t - local_off)
  ELSE None

\* dtparse.parse(v).astimezone(timezone.utc) for a timestamp with offset
ToUtc(d) == d.t - d.off

\* published_* via JSON-LD if still missing: if not published_text
JsonLdPublished(published_text, published_at, ld_date) ==
  IF published_text = None /\ ld_date # None
  THEN [text |-> ld_date, at |-> Some(ToUtc(ld_date[1]))]
  ELSE [text |-> published_text, at |-> published_at]

\* the dates of _parse_listing, DOM first and then JSON-LD
PublishedOf(page) ==
  JsonLdPublished(PublishedText(page),
                  LeadingDateToken(PublishedText(page), page.local_off),
                  page.ld_date)

\* PropertyScraper._parse_listing: the final payload
ParseListingResult(page) ==
  [title |-> page.title,
   address |-> page.address,
   description |-> page.description,
   price |-> JsonLdPrice(DomPrice(page.price_text), page.offer),
   area |-> ParseArea(page.area_token),
   published_at_text |-> PublishedOf(page).text,
   published_at |-> PublishedOf(page).at,
   scraped_at |-> page.now]

DetailOff ==
  /\ xpc = "off"
  /\ xpage = << >>
  /\ listing = << >>
  /\ staged = << >>
  /\ xfails = << >>

\* detail_extraction_stage before the first URL
DetailInit ==
  /\ xpc = "fetch"
  /\ xpage \in ListingPages
  /\ listing = << >>
  /\ staged = << >>
  /\ xfails = << >>

\* html = self._get_page_content(u, cfg), with HTML
FetchDetailOk ==
  /\ xpc = "fetch"
  /\ xpage.fetched
  /\ xpc' = "parse"
  /\ UNCHANGED <<xpage, listing, staged, xfails>>
  /\ UNCHANGED detailOther

\* if not html: fails.append({"url": u, "reason": "no_html"}); continue
FetchDetailNoHtml ==
  /\ xpc = "fetch"
  /\ ~xpage.fetched
  /\ xfails' = Append(xfails, "no_html")
  /\ xpc' = "done"
  /\ UNCHANGED <<xpage, listing, staged>>
  /\ UNCHANGED detailOther

\* listing = self._parse_listing(html, u, cfg)
ParseListing ==
  /\ xpc = "parse"
  /\ listing' = Some(ParseListingResult(xpage))
  /\ xpc' = "guard"
  /\ UNCHANGED <<xpage, staged, xfails>>
  /\ UNCHANGED detailOther

\* if not listing.get("title"): fails.append(... "missing_title"); continue
SkipMissingTitle ==
  /\ xpc = "guard"
  /\ listing[1].title = None
  /\ xfails' = Append(xfails, "missing_title")
  /\ xpc' = "done"
  /\ UNCHANGED <<xpage, listing, staged>>
  /\ UNCHANGED detailOther

\* w.write(listing); ok += 1
WriteListing ==
  /\ xpc = "guard"
  /\ listing[1].title # None
  /\ staged' = Append(staged, listing[1])
  /\ xpc' = "done"
  /\ UNCHANGED <<xpage, listing, xfails>>
  /\ UNCHANGED detailOther

DetailNext ==
  \/ FetchDetailOk
  \/ FetchDetailNoHtml
  \/ ParseListing
  \/ SkipMissingTitle
  \/ WriteListing

\* ------------------------------------- detail extraction over a list of URLs
\* what a URL of the list does when the stage handles it: the fetch returns
\* no HTML or raises, _parse_listing raises, the parsed dict has no title,
\* w.write raises, or the record is written.  (_parse_listing returns a dict
\* on every path, so "parse_returned_none" is never appended.)
UrlBehaviours == {"no_html", "fetch_raises", "parse_raises", "no_title", "write_raises", "ok"}

\* type(e).__name__ of the exception a URL raises
ExceptionName(b) ==
  CASE b = "fetch_raises" -> "RuntimeError"
    [] b = "parse_raises" -> "FeatureNotFound"
    [] b = "write_raises" -> "TypeError"

\* fails.append({"url": u, "reason": reason}); a URL is its position in urls
FailsAppendDropped(fs, u, reason) == fs

FailsAppend(fs, u, reason) == Append(fs, [url |-> u, reason |-> reason])

StageOff ==
  /\ spc = "off"
  /\ surls = << >>
  /\ si = 0
  /\ sok = 0
  /\ sfails = << >>
  /\ sstaged = << >>
  /\ strace = << >>

\* detail_extraction_stage(urls, cfg) before the first URL
StageInit ==
  /\ spc = "fetch"
  /\ surls \in SeqsUpTo(UrlBehaviours, MaxStageUrls)
  /\ si = 1
  /\ sok = 0
  /\ sfails = << >>
  /\ sstaged = << >>
  /\ strace = << >>

\* the URL is given up with a reason, and the loop goes on with the next one
StageFail(reason, events) ==
  /\ sfails' = FailsAppend(sfails, si, reason)
  /\ strace' = strace \o events
  /\ si' = si + 1
  /\ spc' = "fetch"
  /\ UNCHANGED <<surls, sok, sstaged>>
  /\ UNCHANGED stageOther

\* html = self._get_page_content(u, cfg), with HTML
StageFetchOk ==
  /\ spc = "fetch"
  /\ si <= Len(surls)
  /\ surls[si] \notin {"no_html", "fetch_raises"}
  /\ strace' = Append(strace, "fetch")
  /\ spc' = "parse"
  /\ UNCHANGED <<surls, si, sok, sfails, sstaged>>
  /\ UNCHANGED stageOther

\* if not html: fails.append({"url": u, "reason": "no_html"}); continue
StageFetchNoHtml ==
  /\ spc = "fetch"
  /\ si <= Len(surls)
  /\ surls[si] = "no_html"
  /\ StageFail("no_html", <<"fetch", "fail">>)

\* listing = self._parse_listing(html, u, cfg)
StageParseOk ==
  /\ spc = "parse"
  /\ surls[si] # "parse_raises"
  /\ spc' = "guard"
  /\ UNCHANGED <<surls, si, sok, sfails, sstaged, strace>>
  /\ UNCHANGED stageOther

\* if not listing.get("title"): fails.append(... "missing_title"); continue
StageMissingTitle ==
  /\ spc = "guard"
  /\ surls[si] = "no_title"
  /\ StageFail("missing_title", <<"fail">>)

\* w.write(listing); ok += 1
StageWrite ==
  /\ spc = "guard"
  /\ surls[si] = "ok"
  /\ sstaged' = Append(sstaged, si)
  /\ sok' = sok + 1
  /\ strace' = Append(strace, "write")
  /\ si' = si + 1
  /\ spc' = "fetch"
  /\ UNCHANGED <<surls, sfails>>
  /\ UNCHANGED stageOther

\* _get_page_content, _parse_listing or w.write raises:
\* except Exception as e: fails.append({... f"exception:{type(e).__name__}"})
StageExcept ==
  /\ si <= Len(surls)
  /\ \/ spc = "fetch" /\ surls[si] = "fetch_raises"
     \/ spc = "parse" /\ surls[si] = "parse_raises"
     \/ spc = "guard" /\ surls[si] = "write_raises"
  /\ StageFail("exception:" \o ExceptionName(surls[si]),
               IF spc = "fetch" THEN <<"fetch", "fail">> ELSE <<"fail">>)

\* the loop is over: fails goes to <portal>_failures.jsonl; return ok
StageReturn ==
  /\ spc = "fetch"
  /\ si > Len(surls)
  /\ spc' = "done"
  /\ UNCHANGED <<surls, si, sok, sfails, sstaged, strace>>
  /\ UNCHANGED stageOther

StageNext ==
  \/ StageFetchOk
  \/ StageFetchNoHtml
  \/ StageParseOk
  \/ StageMissingTitle
  \/ StageWrite
  \/ StageExcept
  \/ StageReturn

\* ------------------------------------------------- a run over the portals
\* the values of "scraping_mode" a portals.json may carry
ScrapingModes == {"requests", "playwright", "selenium", "curl"}

\* one portal of portals.json: whether it has the four keys ScrapingConfig
\* requires, the number of its seed URLs, and its scraping mode
PortalDicts == [keys_ok : BOOLEAN, seeds : 0..1, mode : ScrapingModes]

\* if env_mode: for c in self.configs: c.scraping_mode = env_mode
EffectiveMode(c, env_mode) == IF env_mode # None THEN env_mode[1] ELSE c.mode

\* page fetches _get_page_content issues for a mode: selenium returns None
\* without one, an unknown mode falls back to requests
FetchesIssued(mode) == IF mode = "selenium" THEN 0 ELSE 1

BootOff ==
  /\ bpc = "off"
  /\ bconfigs = << >>
  /\ benv_mode = None
  /\ bi = 0
  /\ bfetches = 0
  /\ berror = "none"

\* main() before PropertyScraper(args.config)
BootInit ==
  /\ bpc = "load"
  /\ bconfigs \in [1..NumPortals -> PortalDicts]
  /\ benv_mode \in {None, Some("requests")}
  /\ bi = 0
  /\ bfetches = 0
  /\ berror = "none"

\* [ScrapingConfig(**pc) for pc in ...]: a missing required key is a TypeError
BootLoadRaises ==
  /\ bpc = "load"
  /\ \E i \in 1..NumPortals : ~bconfigs[i].keys_ok
  /\ berror' = "TypeError"
  /\ bpc' = "failed"
  /\ UNCHANGED <<bconfigs, benv_mode, bi, bfetches>>
  /\ UNCHANGED bootOther

\* __init__ returns: every portal became a ScrapingConfig
BootLoadOk ==
  /\ bpc = "load"
  /\ \A i \in 1..NumPortals : bconfigs[i].keys_ok
  /\ bi' = 1
  /\ bpc' = "discover"
  /\ UNCHANGED <<bconfigs, benv_mode, bfetches, berror>>
  /\ UNCHANGED bootOther

\* url_discovery_routine(cfg): current = cfg.seed_urls[0] on an empty list
BootDiscoverRaises ==
  /\ bpc = "discover"
  /\ bi <= NumPortals
  /\ bconfigs[bi].seeds = 0
  /\ berror' = "IndexError"
  /\ bpc' = "failed"
  /\ UNCHANGED <<bconfigs, benv_mode, bi, bfetches>>
  /\ UNCHANGED bootOther

\* url_discovery_routine(cfg): html = self._get_page_content(current, cfg)
BootDiscoverFetch ==
  /\ bpc = "discover"
  /\ bi <= NumPortals
  /\ bconfigs[bi].seeds > 0
  /\ bfetches' = bfetches + FetchesIssued(EffectiveMode(bconfigs[bi], benv_mode))
  /\ bi' = bi + 1
  /\ UNCHANGED <<bpc, bconfigs, benv_mode, berror>>
  /\ UNCHANGED bootOther

\* for cfg in configs: ... is over
BootDone ==
  /\ bpc = "discover"
  /\ bi > NumPortals
  /\ bpc' = "done"
  /\ UNCHANGED <<bconfigs, benv_mode, bi, bfetches, berror>>
  /\ UNCHANGED bootOther

BootNext ==
  \/ BootLoadRaises
  \/ BootLoadOk
  \/ BootDiscoverRaises
  \/ BootDiscoverFetch
  \/ BootDone

\* ----------------------------------------------- static fetch of one URL
\* what the session meets on one request: a page, a status outside the
\* forcelist, a status of the forcelist, or a timeout
Responses == {"200", "404", "503", "timeout"}

\* the session's Retry(total=5, status_forcelist=[429, 500, 502, 503, 504])
\* retries a forcelist status and a timeout while retries remain
SessionRetries(resp, done) == resp \in {"503", "timeout"} /\ done < RetryTotal

ReqOff ==
  /\ rq_pc = "off"
  /\ rq_max_retries = 0
  /\ rq_retries = 0
  /\ rq_responses = << >>
  /\ rq_result = "none"

\* _fetch_with_requests(url, cfg) before self.session.get
ReqInit ==
  /\ rq_pc = "get"
  /\ rq_max_retries \in 0..MaxCfgRetries
  /\ rq_retries = 0
  /\ rq_responses = << >>
  /\ rq_result = "pending"

\* the adapter sends the request again after a transient response
ReqRetry ==
  /\ rq_pc = "get"
  /\ \E resp \in Responses :
       /\ SessionRetries(resp, rq_retries)
       /\ rq_responses' = Append(rq_responses, resp)
  /\ rq_retries' = rq_retries + 1
  /\ UNCHANGED <<rq_pc, rq_max_retries, rq_result>>
  /\ UNCHANGED reqOther

\* r.raise_for_status(); return r.text
ReqReturnText ==
  /\ rq_pc = "get"
  /\ rq_responses' = Append(rq_responses, "200")
  /\ rq_result' = "html"
  /\ rq_pc' = "done"
  /\ UNCHANGED <<rq_max_retries, rq_retries>>
  /\ UNCHANGED reqOther

\* the session gives up (retries exhausted) or raise_for_status raises:
\* except Exception: return None
ReqReturnNone ==
  /\ rq_pc = "get"
  /\ \E resp \in Responses \ {"200"} :
       /\ ~SessionRetries(resp, rq_retries)
       /\ rq_responses' = Append(rq_responses, resp)
  /\ rq_result' = "None"
  /\ rq_pc' = "done"
  /\ UNCHANGED <<rq_max_retries, rq_retries>>
  /\ UNCHANGED reqOther

ReqNext ==
  \/ ReqRetry
  \/ ReqReturnText
  \/ ReqReturnNone

\* --------------------------------------------- rendered fetch of one URL
\* the step of an attempt that raised (page.goto also when it times out)
PwSteps == {"new_context", "new_page", "goto"}

\* the context and the page an attempt holds; 0 stands for None
Held(ctx, page) ==
  (IF ctx # 0 THEN {<<"ctx", ctx>>} ELSE {}) \cup (IF page # 0 THEN {<<"page", page>>} ELSE {})

\* finally: if page: page.close() ... if ctx: ctx.close()
AfterCleanupPageOnly(open, ctx, page) == open \ Held(0, page)

AfterCleanup(open, ctx, page) == open \ Held(ctx, page)

PwOff ==
  /\ pw_pc = "off"
  /\ pw_attempts = 0
  /\ pw_ctx = 0
  /\ pw_page = 0
  /\ pw_open = {}
  /\ pw_errs = << >>
  /\ pw_result = "none"

\* _fetch_with_playwright(url, cfg) with the browser launched: attempts = 0
PwInit ==
  /\ pw_pc = "loop"
  /\ pw_attempts = 0
  /\ pw_ctx = 0
  /\ pw_page = 0
  /\ pw_open = {}
  /\ pw_errs = << >>
  /\ pw_result = "pending"

\* while attempts < 3: attempts += 1; ctx = None; page = None
PwAttempt ==
  /\ pw_pc = "loop"
  /\ pw_attempts < PwMaxAttempts
  /\ pw_attempts' = pw_attempts + 1
  /\ pw_ctx' = 0
  /\ pw_page' = 0
  /\ pw_pc' = "new_context"
  /\ UNCHANGED <<pw_open, pw_errs, pw_result>>
  /\ UNCHANGED pwOther

\* ctx = self._pw_browser.new_context(...)
PwNewContext ==
  /\ pw_pc = "new_context"
  /\ pw_ctx' = pw_attempts
  /\ pw_open' = pw_open \cup {<<"ctx", pw_attempts>>}
  /\ pw_pc' = "new_page"
  /\ UNCHANGED <<pw_attempts, pw_page, pw_errs, pw_result>>
  /\ UNCHANGED pwOther

\* ctx.route(...); page = ctx.new_page()
PwNewPage ==
  /\ pw_pc = "new_page"
  /\ pw_page' = pw_attempts
  /\ pw_open' = pw_open \cup {<<"page", pw_attempts>>}
  /\ pw_pc' = "goto"
  /\ UNCHANGED <<pw_attempts, pw_ctx, pw_errs, pw_result>>
  /\ UNCHANGED pwOther

\* page.goto(...) ... html = page.content(); return html (after finally)
PwContent ==
  /\ pw_pc = "goto"
  /\ pw_result' = "html"
  /\ pw_pc' = "finally"
  /\ UNCHANGED <<pw_attempts, pw_ctx, pw_page, pw_open, pw_errs>>
  /\ UNCHANGED pwOther

\* new_context, new_page or page.goto (or a later call on the page) raises
\* or times out: except Exception as e: last_err = e; sleep; then finally
PwRaises ==
  /\ pw_pc \in PwSteps
  /\ pw_errs' = Append(pw_errs, pw_pc)
  /\ pw_pc' = "finally"
  /\ UNCHANGED <<pw_attempts, pw_ctx, pw_page, pw_open, pw_result>>
  /\ UNCHANGED pwOther

\* finally: close the page and the context; then return html, or loop
PwFinally ==
  /\ pw_pc = "finally"
  /\ pw_open' = AfterCleanup(pw_open, pw_ctx, pw_page)
  /\ pw_pc' = IF pw_result = "html" THEN "done" ELSE "loop"
  /\ UNCHANGED <<pw_attempts, pw_ctx, pw_page, pw_errs, pw_result>>
  /\ UNCHANGED pwOther

\* all attempts failed: return None
PwReturnNone ==
  /\ pw_pc = "loop"
  /\ pw_attempts >= PwMaxAttempts
  /\ pw_result' = "None"
  /\ pw_pc' = "done"
  /\ UNCHANGED <<pw_attempts, pw_ctx, pw_page, pw_open, pw_errs>>
  /\ UNCHANGED pwOther

PwNext ==
  \/ PwAttempt
  \/ PwNewContext
  \/ PwNewPage
  \/ PwContent
  \/ PwRaises
  \/ PwFinally
  \/ PwReturnNone

\* ------------------------------------------------------ run directories
Runs == {1, 2}

RunPortals == {"p1", "p2"}

\* datetime.now().strftime("%Y%m%d_%H%M%S"): the clock counts ticks of which
\* TicksPerSecond make a second, and the run id keeps whole seconds
RunId(tick) == tick \div TicksPerSecond

\* self.dirs["staged"] / f"{cfg.portal_name}_urls.jsonl" of a run
LedgerPath(r) == <<RunId(rd_start[r]), rd_portal[r]>>

LedgerPaths == (0..(MaxTick \div TicksPerSecond)) \X RunPortals

\* a path without file
NoFile == [owner |-> 0, lines |-> 0]

RunOff ==
  /\ rd_pc = << >>
  /\ rd_start = << >>
  /\ rd_portal = << >>
  /\ rd_files = << >>

\* two runs about to construct their PropertyScraper, scraper_output empty
RunInit ==
  /\ rd_pc = [r \in Runs |-> "new"]
  /\ rd_start \in [Runs -> 0..MaxTick]
  /\ rd_portal \in [Runs -> RunPortals]
  /\ rd_files = [p \in LedgerPaths |-> NoFile]

\* __init__: run_id, base_dir, mkdir(parents=True, exist_ok=True)
RunConstruct(r) ==
  /\ rd_pc[r] = "new"
  /\ rd_pc' = [rd_pc EXCEPT ![r] = "ready"]
  /\ UNCHANGED <<rd_start, rd_portal, rd_files>>
  /\ UNCHANGED runOther

\* url_discovery_routine: if urls_out.exists(): urls_out.unlink();
\* ... jsonlines.open(urls_out, "w")
RunOpenLedger(r) ==
  /\ rd_pc[r] = "ready"
  /\ rd_files' = [rd_files EXCEPT ![LedgerPath(r)] = [owner |-> r, lines |-> 0]]
  /\ rd_pc' = [rd_pc EXCEPT ![r] = "writing"]
  /\ UNCHANGED <<rd_start, rd_portal>>
  /\ UNCHANGED runOther

\* w.write({"url": full, ...}): the line goes to the file this run opened,
\* which is the file at the path unless another run replaced it
RunWriteUrl(r) ==
  /\ rd_pc[r] = "writing"
  /\ rd_files[LedgerPath(r)].owner = r
  /\ rd_files[LedgerPath(r)].lines < MaxLedgerLines
  /\ rd_files' = [rd_files EXCEPT ![LedgerPath(r)].lines = @ + 1]
  /\ UNCHANGED <<rd_pc, rd_start, rd_portal>>
  /\ UNCHANGED runOther

\* the with block ends; return all_urls
RunReturn(r) ==
  /\ rd_pc[r] = "writing"
  /\ rd_pc' = [rd_pc EXCEPT ![r] = "done"]
  /\ UNCHANGED <<rd_start, rd_portal, rd_files>>
  /\ UNCHANGED runOther

RunNext ==
  \/ \E r \in Runs : RunConstruct(r)
  \/ \E r \in Runs : RunOpenLedger(r)
  \/ \E r \in Runs : RunWriteUrl(r)
  \/ \E r \in Runs : RunReturn(r)

\* ------------------------------------------------ upsert_listings_batched
RowIds == {"a", "b"}

\* seq[i : i + size] of writer.chunked, i counted from 0
ChunkAtInclusive(seq, i, size) == SubSeq(seq, i + 1, Min(i + size + 1, Len(seq)))

ChunkAt(seq, i, size) == SubSeq(seq, i + 1, Min(i + size, Len(seq)))

\* the value of i when the generator is resumed: range(0, len(seq), size)
ChunkIndex == ck_size * Len(ck_batches)

\* supabase_io.chunked: append to buf, yield it when it holds size items,
\* and yield what is left at the end
RECURSIVE ChunkedBuffered(_, _, _, _)
ChunkedBuffered(items, size, buf, out) ==
  IF items = << >>
  THEN IF buf # << >> THEN Append(out, buf) ELSE out
  ELSE LET b == Append(buf, Head(items))
       IN  IF Len(b) >= size
           THEN ChunkedBuffered(Tail(items), size, << >>, Append(out, b))
           ELSE ChunkedBuffered(Tail(items), size, b, out)

ChunkOff ==
  /\ ck_pc = "off"
  /\ ck_rows = << >>
  /\ ck_size = 0
  /\ ck_batches = << >>
  /\ ck_sent = 0

\* upsert_listings_batched(client, rows, batch_size=...) on entry
ChunkInit ==
  /\ ck_pc = "loop"
  /\ ck_rows \in SeqsUpTo(RowIds, MaxRows)
  /\ ck_size \in 1..MaxChunkSize
  /\ ck_batches = << >>
  /\ ck_sent = 0

\* client.upsert_rows("listings", batch, ...) answers 2xx: sent += len(batch)
ChunkSendOk ==
  /\ ck_pc = "loop"
  /\ ChunkIndex < Len(ck_rows)
  /\ ck_batches' = Append(ck_batches, ChunkAt(ck_rows, ChunkIndex, ck_size))
  /\ ck_sent' = ck_sent + Len(ChunkAt(ck_rows, ChunkIndex, ck_size))
  /\ UNCHANGED <<ck_pc, ck_rows, ck_size>>
  /\ UNCHANGED chunkOther

\* client.upsert_rows answers outside 2xx: raise RuntimeError
ChunkSendFails ==
  /\ ck_pc = "loop"
  /\ ChunkIndex < Len(ck_rows)
  /\ ck_batches' = Append(ck_batches, ChunkAt(ck_rows, ChunkIndex, ck_size))
  /\ ck_pc' = "raised"
  /\ UNCHANGED <<ck_rows, ck_size, ck_sent>>
  /\ UNCHANGED chunkOther

\* if not rows: return; or the generator is exhausted
ChunkReturn ==
  /\ ck_pc = "loop"
  /\ ChunkIndex >= Len(ck_rows)
  /\ ck_pc' = "done"
  /\ UNCHANGED <<ck_rows, ck_size, ck_batches, ck_sent>>
  /\ UNCHANGED chunkOther

ChunkNext ==
  \/ ChunkSendOk
  \/ ChunkSendFails
  \/ ChunkReturn

\* -------------------------------------------------- SupabaseClient._request
\* what one urlopen meets: a 2xx response, an HTTPError with its status, or
\* a URLError
HttpOutcomes == {"201", "400", "429", "503", "URLError"}

\* DEFAULT_RETRY_STATUSES
RetryStatuses == {"429", "500", "502", "503", "504"}

\* attempt <= max_retries, in both except arms
MayRetryOnceMore(attempt, max_retries) == attempt <= max_retries + 1

MayRetry(attempt, max_retries) == attempt <= max_retries

HttpOff ==
  /\ h_pc = "off"
  /\ h_max_retries = 0
  /\ h_attempt = 0
  /\ h_responses = << >>
  /\ h_result = "none"

\* _request(...) with attempt = 0
HttpInit ==
  /\ h_pc = "request"
  /\ h_max_retries \in 0..MaxHttpRetries
  /\ h_attempt = 0
  /\ h_responses = << >>
  /\ h_result = "pending"

\* attempt += 1; urlopen answers; return resp.getcode(), resp.read()
HttpReturnOk ==
  /\ h_pc = "request"
  /\ h_attempt' = h_attempt + 1
  /\ h_responses' = Append(h_responses, "201")
  /\ h_result' = "201"
  /\ h_pc' = "done"
  /\ UNCHANGED h_max_retries
  /\ UNCHANGED httpOther

\* HTTPError with a retryable status while attempts remain: sleep; continue
HttpRetryStatus ==
  /\ h_pc = "request"
  /\ \E status \in RetryStatuses \cap HttpOutcomes :
       h_responses' = Append(h_responses, status)
  /\ MayRetry(h_attempt + 1, h_max_retries)
  /\ h_attempt' = h_attempt + 1
  /\ UNCHANGED <<h_pc, h_max_retries, h_result>>
  /\ UNCHANGED httpOther

\* HTTPError otherwise: return status, body
HttpReturnStatus ==
  /\ h_pc = "request"
  /\ \E status \in HttpOutcomes \ {"201", "URLError"} :
       /\ ~(status \in RetryStatuses /\ MayRetry(h_attempt + 1, h_max_retries))
       /\ h_responses' = Append(h_responses, status)
       /\ h_result' = status
  /\ h_attempt' = h_attempt + 1
  /\ h_pc' = "done"
  /\ UNCHANGED h_max_retries
  /\ UNCHANGED httpOther

\* URLError while attempts remain: sleep; continue
HttpRetryNetwork ==
  /\ h_pc = "request"
  /\ MayRetry(h_attempt + 1, h_max_retries)
  /\ h_attempt' = h_attempt + 1
  /\ h_responses' = Append(h_responses, "URLError")
  /\ UNCHANGED <<h_pc, h_max_retries, h_result>>
  /\ UNCHANGED httpOther

\* URLError otherwise: raise RuntimeError
HttpRaise ==
  /\ h_pc = "request"
  /\ ~MayRetry(h_attempt + 1, h_max_retries)
  /\ h_attempt' = h_attempt + 1
  /\ h_responses' = Append(h_responses, "URLError")
  /\ h_result' = "RuntimeError"
  /\ h_pc' = "done"
  /\ UNCHANGED h_max_retries
  /\ UNCHANGED httpOther

HttpNext ==
  \/ HttpReturnOk
  \/ HttpRetryStatus
  \/ HttpReturnStatus
  \/ HttpRetryNetwork
  \/ HttpRaise

\* ------------------------------------------------------------ load_urls_for
LedgerUrls == {"u1", "u2"}

\* the url fields a discovery leaves in <portal>_urls.jsonl
Ledgers == {s \in SeqsUpTo(LedgerUrls, Cardinality(LedgerUrls)) :
              \A i, j \in 1..Len(s) : i # j => s[i] # s[j]}

\* for path in sorted(glob.glob(pattern)): ... yield rec["url"]
RECURSIVE YieldAll(_)
YieldAll(files) ==
  IF files = << >> THEN << >> ELSE Head(files) \o YieldAll(Tail(files))

LoadOff ==
  /\ l_pc = "off"
  /\ l_phase = "none"
  /\ l_prev = << >>
  /\ l_curr = None
  /\ l_urls = << >>

\* main() after PropertyScraper(args.config): a run directory of its own,
\* beside the directories of the earlier runs
LoadInit ==
  /\ l_pc = "discover"
  /\ l_phase \in {"discover", "details", "all"}
  /\ l_prev \in [1..NumPrevRuns -> Ledgers]
  /\ l_curr = None
  /\ l_urls = << >>

\* if args.phase in ("discover", "all"): s.url_discovery_routine(cfg)
LoadDiscover ==
  /\ l_pc = "discover"
  /\ l_phase \in {"discover", "all"}
  /\ \E written_now \in Ledgers : l_curr' = Some(written_now)
  /\ l_pc' = IF l_phase = "all" THEN "load" ELSE "done"
  /\ UNCHANGED <<l_phase, l_prev, l_urls>>
  /\ UNCHANGED loadOther

\* phase "details": no discovery in this run
LoadSkipDiscover ==
  /\ l_pc = "discover"
  /\ l_phase = "details"
  /\ l_pc' = "load"
  /\ UNCHANGED <<l_phase, l_prev, l_curr, l_urls>>
  /\ UNCHANGED loadOther

\* load_urls_for: if curr.exists(): yield its urls; return
LoadCurrent ==
  /\ l_pc = "load"
  /\ l_curr # None
  /\ l_urls' = l_curr[1]
  /\ l_pc' = "done"
  /\ UNCHANGED <<l_phase, l_prev, l_curr>>
  /\ UNCHANGED loadOther

\* load_urls_for: fallback to any run
LoadFallback ==
  /\ l_pc = "load"
  /\ l_curr = None
  /\ l_urls' = YieldAll(l_prev)
  /\ l_pc' = "done"
  /\ UNCHANGED <<l_phase, l_prev, l_curr>>
  /\ UNCHANGED loadOther

LoadNext ==
  \/ LoadDiscover
  \/ LoadSkipDiscover
  \/ LoadCurrent
  \/ LoadFallback

LateOff ==
  /\ StageOff
  /\ BootOff
  /\ ReqOff
  /\ PwOff
  /\ RunOff
  /\ ChunkOff
  /\ HttpOff
  /\ LoadOff

CoreOff ==
  /\ DiscOff
  /\ CanonOff
  /\ WriterOff
  /\ NormOff
  /\ DetailOff

\* --------------------------------------------------------- specifications
Init == DiscInit /\ CanonOff /\ WriterOff /\ NormOff /\ DetailOff /\ LateOff

Next == DiscNext

Spec == Init /\ [][Next]_vars

CanonStart == CanonInit /\ DiscOff /\ WriterOff /\ NormOff /\ DetailOff /\ LateOff

CanonSpec == CanonStart /\ [][CanonNext]_vars

\* the walk of a site whose pages carry at most one anchor, without URL cap
LoopInit ==
  /\ Init
  /\ env_max_listings = 0
  /\ \A p \in PageNos : Len(site[p].anchors) <= 1

\* a started walk keeps taking steps
FairSpec == LoopInit /\ [][Next]_vars /\ WF_vars(Next)

WriterStart == WriterInit /\ DiscOff /\ CanonOff /\ NormOff /\ DetailOff /\ LateOff

WriterSpec == WriterStart /\ [][WriterNext]_vars

NormStart == NormInit /\ DiscOff /\ CanonOff /\ WriterOff /\ DetailOff /\ LateOff

NormSpec == NormStart /\ [][NormNext]_vars

DetailStart == DetailInit /\ DiscOff /\ CanonOff /\ WriterOff /\ NormOff /\ LateOff

DetailSpec == DetailStart /\ [][DetailNext]_vars

StageStart == StageInit /\ CoreOff /\ BootOff /\ ReqOff /\ PwOff /\ RunOff /\ ChunkOff /\ HttpOff /\ LoadOff

StageSpec == StageStart /\ [][StageNext]_vars

BootStart == BootInit /\ CoreOff /\ StageOff /\ ReqOff /\ PwOff /\ RunOff /\ ChunkOff /\ HttpOff /\ LoadOff

BootSpec == BootStart /\ [][BootNext]_vars

ReqStart == ReqInit /\ CoreOff /\ StageOff /\ BootOff /\ PwOff /\ RunOff /\ ChunkOff /\ HttpOff /\ LoadOff

ReqSpec == ReqStart /\ [][ReqNext]_vars

PwStart == PwInit /\ CoreOff /\ StageOff /\ BootOff /\ ReqOff /\ RunOff /\ ChunkOff /\ HttpOff /\ LoadOff

PwSpec == PwStart /\ [][PwNext]_vars

RunStart == RunInit /\ CoreOff /\ StageOff /\ BootOff /\ ReqOff /\ PwOff /\ ChunkOff /\ HttpOff /\ LoadOff

RunSpec == RunStart /\ [][RunNext]_vars

ChunkStart == ChunkInit /\ CoreOff /\ StageOff /\ BootOff /\ ReqOff /\ PwOff /\ RunOff /\ HttpOff /\ LoadOff

ChunkSpec == ChunkStart /\ [][ChunkNext]_vars

HttpStart == HttpInit /\ CoreOff /\ StageOff /\ BootOff /\ ReqOff /\ PwOff /\ RunOff /\ ChunkOff /\ LoadOff

HttpSpec == HttpStart /\ [][HttpNext]_vars

LoadStart == LoadInit /\ CoreOff /\ StageOff /\ BootOff /\ ReqOff /\ PwOff /\ RunOff /\ ChunkOff /\ HttpOff

LoadSpec == LoadStart /\ [][LoadNext]_vars

\* ------------------------------------------------------------------ claims
\* the elements of a sequence are pairwise different
NoDup(s) == \A i, j \in 1..Len(s) : i # j => s[i] # s[j]

\* the pages on the chain of next links that starts at page p (the links the
\* configured pagination selector matches), while no page repeats
RECURSIVE ChainFrom(_, _)
ChainFrom(p, seenPages) ==
  IF p = 0 \/ p \in seenPages THEN << >>
  ELSE <<p>> \o ChainFrom(IF cfg.pagination_selector THEN site[p].next ELSE 0,
                          seenPages \cup {p})

Chain == ChainFrom(1, {})

\* the chain ends at a page without next link (it does not run into a cycle)
ChainEnds ==
  (IF cfg.pagination_selector THEN site[Chain[Len(Chain)]].next ELSE 0) = 0

\* the canonical URLs of the anchors of page p, in page order
PageListingUrls(p) ==
  LET withHref == SelectSeq(site[p].anchors, LAMBDA h : h # NoHref)
  IN  [i \in 1..Len(withHref) |-> Full[p][withHref[i]]]

RECURSIVE Concat(_)
Concat(ss) == IF ss = << >> THEN << >> ELSE Head(ss) \o Concat(Tail(ss))

\* s without the later occurrences of its elements
RECURSIVE FirstOccurrences(_, _)
FirstOccurrences(s, have) ==
  IF s = << >> THEN << >>
  ELSE IF Head(s) \in have THEN FirstOccurrences(Tail(s), have)
       ELSE <<Head(s)>> \o FirstOccurrences(Tail(s), have \cup {Head(s)})

ChainListingUrls ==
  FirstOccurrences(Concat([i \in 1..Len(Chain) |-> PageListingUrls(Chain[i])]), {})

\* C1 as stated: with max_pages = N the walk fetches at most N pages.
C1_AtMostMaxPagesFetched ==
  cfg.max_pages.kind = "int" => Len(fetched) <= cfg.max_pages.val

\* C1 (amended): with max_pages = N and N > 0 the walk fetches at most N
\* result pages, however many next links the site offers.
C1_AtMostMaxPagesWhenPositive ==
  (cfg.max_pages.kind = "int" /\ cfg.max_pages.val > 0) => Len(fetched) <= cfg.max_pages.val

\* C1 witness: the walk stopped at the page cap on a page that offers a next link.
C1_Witness ==
  /\ dpc = "done"
  /\ stop_reason = "page_cap"
  /\ cfg.max_pages = [kind |-> "int", val |-> 2]
  /\ Len(fetched) = 2
  /\ site[soup].next # 0

\* C2: every started walk eventually returns.
C2_WalkTerminates == (dpc = "loop") ~> (dpc = "idle")

\* C3: with MAX_LISTINGS = M > 0 the list and the ledger never hold more
\* than M URLs and no page is fetched after the M-th URL was collected.
C3_StopsAtMaxListings ==
  env_max_listings > 0 =>
    /\ Len(all_urls) <= env_max_listings
    /\ Len(ledger) <= env_max_listings
    /\ Len(returned) <= env_max_listings
    /\ cap_hit_at # -1 => Len(fetched) = cap_hit_at

\* C4: a second run over the same pages writes no record to the ledger.
C4_SecondRunWritesNothing ==
  (run = 2 /\ ~fetch_failed) => written = 0

\* C5: within one run no URL appears twice in the ledger, in the list of
\* discovered URLs or in the returned list.
C5_NoDuplicateUrls == NoDup(ledger) /\ NoDup(all_urls) /\ NoDup(returned)

\* C5 witness: a walk over two pages that link the same listing three times
\* (once with a trailing slash) has returned.
C5_Witness ==
  /\ dpc = "idle"
  /\ run = 1
  /\ fetched = <<1, 2>>
  /\ site[1].anchors = <<HrefA, HrefASlash>>
  /\ site[2].anchors = <<HrefA, HrefB>>
  /\ returned = <<HrefA, HrefB>>

\* the precondition of C6: the chain of next links ends, has no more pages
\* than the page cap allows, and no fetch failed
C6_Pre ==
  /\ dpc = "idle"
  /\ run >= 1
  /\ ~fetch_failed
  /\ ChainEnds
  /\ EffMaxPages(cfg.max_pages) = 0 \/ Len(Chain) <= EffMaxPages(cfg.max_pages)

C6_Post ==
  /\ fetched = Chain
  /\ stop_reason = "no_next"
  /\ returned = ChainListingUrls

\* C6 as stated: a walk over a chain of k pages (k within the page cap, every
\* fetch succeeding) fetches those pages in order, stops for want of a next
\* link and returns their distinct canonical URLs in first-discovered order.
C6_WalksWholeChain == C6_Pre => C6_Post

\* C6 (amended): the same, provided MAX_LISTINGS is 0 or exceeds the number
\* of distinct listing URLs on those pages.
C6_WalksWholeChainBelowUrlCap ==
  (C6_Pre /\ (env_max_listings = 0 \/ Len(ChainListingUrls) < env_max_listings)) => C6_Post

\* C6 witness: two listings on the first page, a next link to a second page
\* with one more anchor and no next link; the page cap is not reached.
C6_Witness ==
  /\ C6_Pre
  /\ env_max_listings = 0
  /\ cfg.max_pages = [kind |-> "int", val |-> 2]
  /\ site[1] = [anchors |-> <<HrefA, HrefB>>, next |-> 2]
  /\ site[2] = [anchors |-> <<HrefASlash>>, next |-> 0]
  /\ returned = <<HrefA, HrefB>>
  /\ stop_reason = "no_next"

C8_IdempotentAndSlashFragmentStable ==
  /\ cpc \in {"twice", "variant"} => c2 = c1
  /\ (cpc = "variant" /\ vkind \in {"slash", "fragment", "nofragment"}) => vc = c1

\* C9: two URLs that differ only in the letter case of their scheme or of
\* their host canonicalize to the same string.
C9_SchemeHostCaseInsensitive ==
  (cpc = "variant" /\ vkind \in {"scheme", "host"}) => vc = c1

\* C10: an upsert never replaces a stored non-null price or area of a
\* listing by null.
C10_NullSafeMerge ==
  [][\A u \in ListingUrls : \A c \in {"price_php", "area_sqm"} :
       (listings[u] # None /\ listings[u][1][c] # None) => listings'[u][1][c] # None]_vars

\* C11: a call whose every attempt raised made exactly `retries` attempts,
\* ended by raising, and left buffer and buffer_meta holding the batch it
\* tried to send, in order (for add: the old buffer plus the new row).
C11_FailedFlushKeepsBatch ==
  [][(wfailed' >= 1 /\ wfailed' = retries) =>
       /\ wstatus' = "raised"
       /\ wop' \in {"flush", "close"} => (buffer' = buffer /\ buffer_meta' = buffer_meta)
       /\ wop' = "add" =>
            /\ Len(buffer') = Len(buffer) + 1
            /\ SubSeq(buffer', 1, Len(buffer)) = buffer
            /\ Len(buffer_meta') = Len(buffer_meta) + 1
            /\ SubSeq(buffer_meta', 1, Len(buffer_meta)) = buffer_meta]_vars

\* C11 witness: a flush of two buffered records raised after two failing
\* attempts and the two records are still buffered.
C11_Witness ==
  /\ wop = "flush"
  /\ wstatus = "raised"
  /\ retries = 2
  /\ wfailed = 2
  /\ Len(buffer) = 2
  /\ Len(buffer_meta) = 2

\* C12: whenever close() returns without raising, the buffer is empty.
C12_CloseLeavesNothingBuffered ==
  (wop = "close" /\ wstatus = "ok") => (buffer = << >> /\ buffer_meta = << >>)

\* C13: after an add_scrape_record call that returns normally the buffer
\* holds fewer than batch_size records, and as many as buffer_meta.
C13_AddKeepsBufferBelowBatchSize ==
  (wop = "add" /\ wstatus = "ok") =>
    (Len(buffer) < batch_size /\ Len(buffer) = Len(buffer_meta))

\* C14: the snapshot table never holds two snapshots of the same listing
\* for the same scraped date.
C14_OneSnapshotPerListingAndDay ==
  \A s, t \in listing_daily :
    (s.listing_id = t.listing_id /\ s.scraped_date = t.scraped_date) => s = t

\* C14 witness: two records were added and sent, both for listing u1, and
\* the snapshot table holds one snapshot.
C14_Witness ==
  /\ adds = 2
  /\ buffer = << >>
  /\ wstatus = "ok"
  /\ listings["u1"] # None
  /\ listings["u2"] = None
  /\ Cardinality(listing_daily) = 1

\* C15: the row's price_per_sqm is price_php / area_sqm whenever a numeric
\* price and a positive numeric area are present (45000 and 30 give 1500),
\* and is unset when the price is null or the area is null, zero or negative.
C15_PricePerSqmDerived ==
  npc = "done" =>
    /\ (nrow.price_php # None /\ nrow.area_sqm # None /\ nrow.area_sqm[1] > 0) =>
         nrow.price_per_sqm = Some(Quotient(nrow.price_php[1], nrow.area_sqm[1]))
    /\ (nrow.price_php = Some(45000) /\ nrow.area_sqm = Some(30)) =>
         nrow.price_per_sqm = Some(<<1500, 1>>)
    /\ (nrow.price_php = None \/ nrow.area_sqm = None \/ nrow.area_sqm[1] <= 0) =>
         nrow.price_per_sqm = None

\* square feet as square metres, feet x 0.092903 rounded to 2 decimals, in
\* hundredths of a square metre
SqFtToSqmHundredths(ft) == (ft * 92903 + 5000) \div 10000

\* C16: a page stating its area in square feet only gets
\* area.sqm = feet x 0.092903 rounded to 2 decimals, and a page stating it in
\* square metres gets that number unchanged.
C16_AreaNormalized ==
  (listing # << >> /\ xpage.area_token # None) =>
    /\ listing[1].area # None
    /\ xpage.area_token[1].unit = "sqft" =>
         100 * listing[1].area[1].sqm = SqFtToSqmHundredths(xpage.area_token[1].n)
    /\ xpage.area_token[1].unit = "sqm" =>
         listing[1].area[1].sqm = xpage.area_token[1].n

\* C17: a page whose publish-date text is a relative phrase gets
\* published_at = now minus the stated days and hours.
C17_RelativeDateParsed ==
  (listing # << >> /\ xpage.date_attr = None /\ xpage.date_text # None
     /\ xpage.date_text[1].kind = "rel") =>
    listing[1].published_at =
      Some(xpage.now - (24 * xpage.date_text[1].days + xpage.date_text[1].hours))

\* C18: a page with a machine-readable absolute date, in a datetime
\* attribute or in a JSON-LD date field, gets that date in UTC as published_at.
C18_MachineReadableDateUsed ==
  (listing # << >> /\ (xpage.date_attr # None \/ xpage.ld_date # None)) =>
    listing[1].published_at =
      Some(ToUtc(IF xpage.date_attr # None THEN xpage.date_attr[1] ELSE xpage.ld_date[1]))

\* C19: when the price element gives no number and a JSON-LD Offer reports
\* price p in currency c, the record has price.value = p and
\* price.currency = c; when the price element gives a number, the record's
\* price is the one read from the element.
C19_PriceFallbackOrder ==
  listing # << >> =>
    /\ ((xpage.price_text = None \/ xpage.price_text[1].num = None) /\ xpage.offer # None) =>
         /\ listing[1].price # None
         /\ listing[1].price[1].value = Some(xpage.offer[1].price)
         /\ listing[1].price[1].currency = Some(xpage.offer[1].currency)
    /\ (xpage.price_text # None /\ xpage.price_text[1].num # None) =>
         listing[1].price = DomPrice(xpage.price_text)

\* the fields of a parsed listing that are null
NullFields(l) ==
  {f \in {"title", "price", "area", "address", "description", "published_at"} : l[f] = None}

\* C20: a fetched page that lacks at most one of title, price, area,
\* address, description and date is written to the staged output, with that
\* field null.
C20_OneMissingFieldKeepsRecord ==
  (xpc = "done" /\ xpage.fetched /\ Cardinality(NullFields(listing[1])) <= 1) =>
    staged = <<listing[1]>>

\* how often the stage accounted for the URL at position u: as a staged
\* record or as an entry of fails
Accounted(u) ==
  Cardinality({i \in 1..Len(sstaged) : sstaged[i] = u})
    + Cardinality({i \in 1..Len(sfails) : sfails[i].url = u})

\* C21: a failure on one URL never aborts detail_extraction_stage: every URL
\* the loop has passed is accounted for exactly once, as one staged record or
\* as one failure entry with a non-empty reason, and no later URL is
\* accounted for; the stage ends only after the last URL, with
\* successes + failures = number of input URLs.
C21_EveryUrlAccountedOnce ==
  /\ \A u \in 1..Len(surls) : Accounted(u) = IF u < si THEN 1 ELSE 0
  /\ \A i \in 1..Len(sfails) : sfails[i].reason # ""
  /\ Len(sstaged) = sok
  /\ spc = "done" => (si = Len(surls) + 1 /\ sok + Len(sfails) = Len(surls))

\* a finished stage of three URLs: the first raised in the parser, the second
\* came without HTML, the third was written
C21_Witness ==
  /\ spc = "done"
  /\ surls = <<"parse_raises", "no_html", "ok">>
  /\ sstaged = <<3>>
  /\ Len(sfails) = 2

\* a portal of portals.json carries a configuration error
ConfigInvalid(c) ==
  \/ ~c.keys_ok
  \/ c.seeds = 0
  \/ c.mode \notin {"requests", "selenium", "playwright"}

\* C22: a configuration error in any portal (missing required key, empty
\* seed list, scraping mode outside requests/selenium/playwright) makes the
\* run fail at startup: no page fetch has been issued, for any portal, and
\* the run does not complete.
C22_ConfigErrorFailsAtStartup ==
  (\E i \in 1..Len(bconfigs) : ConfigInvalid(bconfigs[i]))
    => (bfetches = 0 /\ bpc # "done")

\* C23: the static fetch makes at most cfg.max_retries retries on transient
\* responses, and a fetch that ends on a transient response returns None.
C23_RetriesBoundedByMaxRetries ==
  /\ rq_retries <= rq_max_retries
  /\ (rq_pc = "done" /\ rq_responses[Len(rq_responses)] # "200") => rq_result = "None"

\* C24: the rendered fetch makes at most 3 attempts, and no context or page
\* is open when an attempt starts or when the fetch has returned, however
\* the attempts ended.
C24_AttemptsBoundedResourcesReleased ==
  /\ pw_attempts <= 3
  /\ pw_pc \in {"loop", "new_context", "done"} => pw_open = {}
  /\ pw_pc = "done" => pw_result \in {"html", "None"}

\* the fetch returned HTML on its third attempt, after an attempt whose
\* page.goto raised and one whose new_page raised
C24_Witness ==
  /\ pw_pc = "done"
  /\ pw_result = "html"
  /\ pw_attempts = 3
  /\ pw_errs = <<"goto", "new_page">>

\* C25: between any two consecutive listing-page fetches of the detail
\* extraction stage a politeness delay occurs.
C25_DelayBetweenListingFetches ==
  \A i, j \in 1..Len(strace) :
    (i < j /\ strace[i] = "fetch" /\ strace[j] = "fetch")
      => \E k \in (i + 1)..(j - 1) : strace[k] = "delay"

\* C26: two runs have distinct run directories, and the ledger a run has
\* opened is the file at its path: no other run created, truncated or
\* deleted it.
C26_RunsKeepTheirFiles ==
  /\ \A r1, r2 \in DOMAIN rd_pc :
       (r1 # r2 /\ rd_pc[r1] # "new" /\ rd_pc[r2] # "new")
         => RunId(rd_start[r1]) # RunId(rd_start[r2])
  /\ \A r \in DOMAIN rd_pc :
       rd_pc[r] \in {"writing", "done"} => rd_files[LedgerPath(r)].owner = r

\* batches are consecutive slices of rows, in order, each of 1..size rows
IsChunking(batches, rows, size) ==
  /\ \A k \in 1..Len(batches) : Len(batches[k]) \in 1..size
  /\ Concat(batches) = SubSeq(rows, 1, Len(Concat(batches)))

\* C27: for batch_size >= 1 the batches upsert_listings_batched transmits
\* are consecutive slices of rows in the original order, each of at most
\* batch_size rows and none empty; when every transmission succeeded their
\* concatenation is rows, so each row was sent in exactly one batch.  The
\* buffering chunked of supabase_io splits the same way.
C27_ChunksPartitionRows ==
  /\ ck_pc # "off" => IsChunking(ck_batches, ck_rows, ck_size)
  /\ ck_pc = "done" => (Concat(ck_batches) = ck_rows /\ ck_sent = Len(ck_rows))
  /\ ck_pc # "off" =>
       LET io == ChunkedBuffered(ck_rows, ck_size, << >>, << >>)
       IN  IsChunking(io, ck_rows, ck_size) /\ Concat(io) = ck_rows

\* four rows sent in batches of three: one full batch and the rest
C27_Witness ==
  /\ ck_pc = "done"
  /\ Len(ck_rows) = 4
  /\ ck_size = 3
  /\ Len(ck_batches) = 2
  /\ Len(ck_batches[2]) = 1

\* C28: _request makes at most max_retries + 1 attempts and has ended once
\* it made that many, for any interleaving of retryable statuses and network
\* errors; a non-retryable status ends the call on the attempt that met it
\* and is returned, not raised.
C28_RequestBounded ==
  /\ h_attempt <= h_max_retries + 1
  /\ h_attempt = Len(h_responses)
  /\ h_pc = "request" => h_attempt <= h_max_retries
  /\ \A i \in 1..Len(h_responses) :
       h_responses[i] = "400" => (i = Len(h_responses) /\ h_pc = "done" /\ h_result = "400")
  /\ (h_pc = "done" /\ h_responses[1] = "400") => h_attempt = 1

\* max_retries = 3: three retried failures, a network error among them, and
\* the retryable status of the fourth attempt is returned
C28_Witness ==
  /\ h_pc = "done"
  /\ h_max_retries = 3
  /\ h_responses = <<"503", "URLError", "429", "503">>
  /\ h_result = "503"

\* C29: the URL list handed to detail_extraction_stage holds each URL at
\* most once.
C29_EachUrlAtMostOnce ==
  l_pc = "done" => NoDup(l_urls)

\* C30: every listings upsert that flush issues carries at most batch_size
\* rows.
C30_UpsertAtMostBatchSize ==
  wrows <= batch_size

====
